---- MODULE Spec2Model ----
(***************************************************************************)
(* Chirpy: authentication and authorization of the HTTP handlers           *)
(* (src/main.go, final revision at lines 238-683) and of the auth package  *)
(* (src/internal/auth/auth.go, lines 1-82).                                *)
(*                                                                         *)
(* Strings that carry credentials are sequences of parts, so that cutting  *)
(* a scheme prefix, signing and parsing are computed and not assumed.      *)
(* Time is counted in ticks, TicksPerSecond ticks to the second.           *)
(***************************************************************************)
EXTENDS Integers, Sequences, FiniteSets, TLC

\* ---------------------------------------------------------------- bounds
TicksPerSecond == 2
MaxUsers == 2
MaxChirps == 1
MaxTokens == 2
MaxHits == 1
MaxSalt == 1
MaxReq == 2
MaxHeaderLen == 3
MaxPasswordLen == 2

\* ------------------------------------------------------ program constants
Second == TicksPerSecond
Hour == 3600 * Second
\* time.Hour * 24 * 60
SixtyDays == 24 * 60 * Hour
\* bcrypt refuses passwords longer than this many bytes
BcryptMaxLen == 72
MaxChirpLen == 140
StatusOK == 200
StatusCreated == 201
StatusNoContent == 204
StatusBadRequest == 400
StatusUnauthorized == 401
StatusForbidden == 403
StatusNotFound == 404
StatusInternalServerError == 500

\* the server's configuration (os.Getenv in main)
Secret == "secret-k1"
OtherSecret == "secret-k2"
PolkaKey == "polka-key"
WrongKey == "wrong-key"

NULL == 0 - 1
NilUUID == 0
EmptyString == <<>>

\* ------------------------------------------------------------- state
VARIABLES
    users,           \* rows of the users table
    chirps,          \* rows of the chirps table
    refresh_tokens,  \* rows of the refresh_tokens table
    fileserverHits,  \* apiConfig.fileserverHits
    platform,        \* apiConfig.platform
    now,             \* the clock read by time.Now() and NOW()
    nextUser,        \* draws of gen_random_uuid() for users
    nextChirp,       \* draws of gen_random_uuid() for chirps
    nextToken,       \* draws of rand.Read for refresh tokens
    resp,            \* the request just served and its response
    held,            \* the session token a client has kept, if any
    revoked_ok,      \* refresh tokens for which a revoke request succeeded
    inflight,        \* requests in progress, one storage call per step
    jwt,             \* one issue-and-validate run of the token signer
    call             \* one call of a function of the auth package on its own

vars == <<users, chirps, refresh_tokens, fileserverHits, platform, now,
          nextUser, nextChirp, nextToken, resp, held, revoked_ok, inflight, jwt,
          call>>

store == <<users, chirps, refresh_tokens>>
counters == <<nextUser, nextChirp, nextToken>>
clock == <<now>>
config == <<platform>>
aside == <<inflight, jwt, call>>

\* ------------------------------------------------------------- strings
Lit(s) == [kind |-> "lit", s |-> s]
Hex(n) == [kind |-> "hex", n |-> n]
BearerPrefix == <<Lit("Bearer ")>>
ApiKeyPrefix == <<Lit("ApiKey ")>>

\* strings.CutPrefix(s, prefix)
CutPrefix(s, prefix) ==
    IF Len(s) >= Len(prefix) /\ SubSeq(s, 1, Len(prefix)) = prefix
    THEN [rest |-> SubSeq(s, Len(prefix) + 1, Len(s)), ok |-> TRUE]
    ELSE [rest |-> s, ok |-> FALSE]

\* uuid.UUID.String and uuid.Parse
UUIDString(u) == [fmt |-> "uuid", v |-> u]
GarbageString == [fmt |-> "text", v |-> 0]
UUIDParse(s) ==
    IF s.fmt = "uuid" THEN [id |-> s.v, err |-> FALSE]
    ELSE [id |-> NilUUID, err |-> TRUE]

\* ------------------------------------------------------- auth package
\* the zero byte
NUL == "0x00"

\* the key bcrypt derives from a password: the password and a closing zero
\* byte, repeated to fill the BcryptMaxLen bytes that blowfish.ExpandKey reads
KeyStream(password) ==
    LET ckey == password \o <<NUL>>
    IN [i \in 1..BcryptMaxLen |-> ckey[((i - 1) % Len(ckey)) + 1]]

\* bcrypt digest of a password under a salt
Digest(salt, password) == <<salt, KeyStream(password)>>
EmptyHash == [fmt |-> "empty", salt |-> 0, digest |-> <<0, EmptyString>>]
InvalidHash == [fmt |-> "text", salt |-> 0, digest |-> <<0, EmptyString>>]

HashPassword(password, salt) ==
    IF Len(password) > BcryptMaxLen
    THEN [hash |-> EmptyHash, err |-> TRUE]
    ELSE [hash |-> [fmt |-> "bcrypt", salt |-> salt,
                    digest |-> Digest(salt, password)],
          err |-> FALSE]

\* variant: a well-formed hash is accepted without comparing digests
CheckPasswordHashFormatOnly(hash, password) == hash.fmt # "bcrypt"

\* TRUE when CheckPasswordHash returns a non-nil error
CheckPasswordHash(hash, password) ==
    IF hash.fmt # "bcrypt" THEN TRUE
    ELSE hash.digest # Digest(hash.salt, password)

\* jwt.NewNumericDate: t.Truncate(jwt.TimePrecision), precision one second
NumericDate(t) == t - (t % Second)

\* HMAC-SHA256 of the claims under a key
HS256(claims, key) == [c |-> claims, k |-> key]

JWTPart(claims, sig) == [kind |-> "jwt", claims |-> claims, sig |-> sig]

\* variant: the lifetime is not added to the expiry
MakeJWTNoLifetime(userID, tokenSecret, expiresIn, t) ==
    LET claims == [iss |-> "chirpy",
                   iat |-> NumericDate(t),
                   exp |-> NumericDate(t),
                   sub |-> UUIDString(userID)]
    IN [token |-> <<JWTPart(claims, HS256(claims, tokenSecret))>>,
        err |-> FALSE]

\* claims and HS256 signature; t stands for time.Now()
MakeJWT(userID, tokenSecret, expiresIn, t) ==
    LET claims == [iss |-> "chirpy",
                   iat |-> NumericDate(t),
                   exp |-> NumericDate(t + expiresIn),
                   sub |-> UUIDString(userID)]
    IN [token |-> <<JWTPart(claims, HS256(claims, tokenSecret))>>,
        err |-> FALSE]

\* variant: the expiry of the token is not looked at
ValidateJWTNoExpiry(tokenString, tokenSecret, t) ==
    IF Len(tokenString) # 1 \/ tokenString[1].kind # "jwt"
    THEN [id |-> NilUUID, err |-> "malformed"]
    ELSE LET p == tokenString[1] IN
         IF p.sig # HS256(p.claims, tokenSecret)
         THEN [id |-> NilUUID, err |-> "signature"]
         ELSE IF UUIDParse(p.claims.sub).err
         THEN [id |-> NilUUID, err |-> "subject"]
         ELSE [id |-> UUIDParse(p.claims.sub).id, err |-> ""]

\* variant: a session token dies with its subject's revoked refresh token
ValidateJWTUnlessRevoked(tokenString, tokenSecret, t) ==
    IF Len(tokenString) # 1 \/ tokenString[1].kind # "jwt"
    THEN [id |-> NilUUID, err |-> "malformed"]
    ELSE LET p == tokenString[1] IN
         IF p.sig # HS256(p.claims, tokenSecret)
         THEN [id |-> NilUUID, err |-> "signature"]
         ELSE IF ~(t < p.claims.exp)
         THEN [id |-> NilUUID, err |-> "expired"]
         ELSE IF UUIDParse(p.claims.sub).err
         THEN [id |-> NilUUID, err |-> "subject"]
         ELSE IF \E r \in refresh_tokens :
                    /\ r.user_id = UUIDParse(p.claims.sub).id
                    /\ r.revoked_at # NULL
         THEN [id |-> NilUUID, err |-> "revoked"]
         ELSE [id |-> UUIDParse(p.claims.sub).id, err |-> ""]

\* jwt.ParseWithClaims (segments, signature, then exp against time.Now()),
\* then uuid.Parse of the subject
ValidateJWT(tokenString, tokenSecret, t) ==
    IF Len(tokenString) # 1 \/ tokenString[1].kind # "jwt"
    THEN [id |-> NilUUID, err |-> "malformed"]
    ELSE LET p == tokenString[1] IN
         IF p.sig # HS256(p.claims, tokenSecret)
         THEN [id |-> NilUUID, err |-> "signature"]
         ELSE IF ~(t < p.claims.exp)
         THEN [id |-> NilUUID, err |-> "expired"]
         ELSE IF UUIDParse(p.claims.sub).err
         THEN [id |-> NilUUID, err |-> "subject"]
         ELSE [id |-> UUIDParse(p.claims.sub).id, err |-> ""]

\* http.Header with or without an Authorization entry
Header(present, value) == [present |-> present, value |-> value]

\* headers.Get("Authorization"): the empty string when there is no entry
Authorization(headers) ==
    IF headers.present THEN headers.value ELSE EmptyString

\* variant: the header is returned with its scheme
GetBearerTokenUncut(authorization) ==
    IF authorization = EmptyString
    THEN [token |-> EmptyString, err |-> "authorization not found in header"]
    ELSE IF CutPrefix(authorization, BearerPrefix).ok
    THEN [token |-> authorization, err |-> ""]
    ELSE [token |-> EmptyString, err |-> "bearer not found in header"]

GetBearerToken(authorization) ==
    IF authorization = EmptyString
    THEN [token |-> EmptyString, err |-> "authorization not found in header"]
    ELSE IF CutPrefix(authorization, BearerPrefix).ok
    THEN [token |-> CutPrefix(authorization, BearerPrefix).rest, err |-> ""]
    ELSE [token |-> EmptyString, err |-> "bearer not found in header"]

\* hex.EncodeToString of 32 random bytes; n stands for the random draw
MakeRefreshToken(n) == <<Hex(n)>>

GetAPIKey(authorization) ==
    IF authorization = EmptyString
    THEN [token |-> EmptyString, err |-> "authorization not found in header"]
    ELSE IF CutPrefix(authorization, ApiKeyPrefix).ok
    THEN [token |-> CutPrefix(authorization, ApiKeyPrefix).rest, err |-> ""]
    ELSE [token |-> EmptyString, err |-> "ApiKey not found in header"]


\* ------------------------------------------------------- request inputs
Emails == {"a@x.com", "b@x.com"}
Password1 == <<"s", "e", "c", "r", "e", "t">>
Password2 == <<"o", "t", "h", "e", "r">>
LongPassword == [i \in 1..(BcryptMaxLen + 1) |-> "x"]
Passwords == {Password1, Password2, LongPassword}
Salts == 1..MaxSalt
UserIDs == 1..MaxUsers
ChirpIDs == 1..MaxChirps
Platforms == {"dev", "prod"}
Events == {"user.upgraded", "user.downgraded"}
BodyLengths == {MaxChirpLen, MaxChirpLen + 1}

\* a session token whose subject was altered after signing
Tamper(tokenString) ==
    LET p == tokenString[1]
        other == IF UUIDParse(p.claims.sub).id = 1 THEN 2 ELSE 1
    IN <<JWTPart([p.claims EXCEPT !.sub = UUIDString(other)], p.sig)>>

KnownRefreshTokens == {r.token : r \in refresh_tokens} \cup revoked_ok
ForgedTokens ==
    {MakeJWT(1, OtherSecret, Hour, now).token} \cup {Tamper(h) : h \in held}

\* the Authorization headers of a client that sends what it has kept
HeldHeaders == {BearerPrefix \o c : c \in held}
StoredHeaders == {BearerPrefix \o r.token : r \in refresh_tokens}

\* values of the Authorization header a client may send where a session
\* token is expected
SessionHeaders ==
    {EmptyString, BearerPrefix \o MakeRefreshToken(0)}
    \cup {BearerPrefix \o c : c \in held \cup ForgedTokens}
    \cup {c : c \in held}

\* values of the Authorization header a client may send where a refresh
\* token is expected
RefreshHeaders ==
    {EmptyString}
    \cup {BearerPrefix \o c : c \in KnownRefreshTokens \cup {MakeRefreshToken(0)}}
    \cup {BearerPrefix \o c : c \in held}
    \cup {c : c \in KnownRefreshTokens}

\* values of the Authorization header the billing provider may send
ApiKeyHeaders ==
    {EmptyString,
     ApiKeyPrefix \o <<Lit(PolkaKey)>>,
     ApiKeyPrefix \o <<Lit(WrongKey)>>,
     ApiKeyPrefix,
     <<Lit(PolkaKey)>>,
     BearerPrefix \o <<Lit(PolkaKey)>>}

UserIDStrings == {UUIDString(u) : u \in UserIDs} \cup {GarbageString}
ChirpIDStrings == {UUIDString(c) : c \in ChirpIDs} \cup {GarbageString}

\* ------------------------------------------------------------- storage
NoRow == [id |-> NilUUID]
One(rows) == IF rows = {} THEN [row |-> NoRow, err |-> TRUE]
             ELSE [row |-> CHOOSE r \in rows : TRUE, err |-> FALSE]

GetUserByEmail(email) == One({u \in users : u.email = email})
GetUserByID(id) == One({u \in users : u.id = id})
GetRefreshToken(token) == One({r \in refresh_tokens : r.token = token})
GetUserFromRefreshToken(token) ==
    One({u \in users : \E r \in refresh_tokens :
                           r.token = token /\ r.user_id = u.id})
GetChirpByID(id) == One({c \in chirps : c.id = id})

\* INSERT INTO users; the email column is unique
CreateUser(id, email, hashed_password) ==
    IF \E u \in users : u.email = email
    THEN [rows |-> users, row |-> NoRow, err |-> TRUE]
    ELSE LET row == [id |-> id, email |-> email,
                     hashed_password |-> hashed_password,
                     is_chirpy_red |-> FALSE]
         IN [rows |-> users \cup {row}, row |-> row, err |-> FALSE]

\* UPDATE users SET email, hashed_password WHERE id
UpdateUser(id, email, hashed_password) ==
    IF GetUserByID(id).err \/ (\E u \in users : u.email = email /\ u.id # id)
    THEN [rows |-> users, row |-> NoRow, err |-> TRUE]
    ELSE LET old == GetUserByID(id).row
             row == [old EXCEPT !.email = email,
                                !.hashed_password = hashed_password]
         IN [rows |-> (users \ {old}) \cup {row}, row |-> row, err |-> FALSE]

\* UPDATE users SET is_chirpy_red = TRUE WHERE id
UpgradeUser(id) ==
    IF GetUserByID(id).err
    THEN [rows |-> users, row |-> NoRow, err |-> TRUE]
    ELSE LET old == GetUserByID(id).row
             row == [old EXCEPT !.is_chirpy_red = TRUE]
         IN [rows |-> (users \ {old}) \cup {row}, row |-> row, err |-> FALSE]

\* INSERT INTO refresh_tokens; user_id references users(id)
CreateRefreshToken(token, user_id, expires_at) ==
    IF GetUserByID(user_id).err
    THEN [rows |-> refresh_tokens, row |-> NoRow, err |-> TRUE]
    ELSE LET row == [token |-> token, user_id |-> user_id,
                     created_at |-> now, updated_at |-> now,
                     expires_at |-> expires_at, revoked_at |-> NULL]
         IN [rows |-> refresh_tokens \cup {row}, row |-> row, err |-> FALSE]

\* UPDATE refresh_tokens SET revoked_at = NOW(), updated_at = NOW() WHERE token
RevokeToken(token) ==
    IF GetRefreshToken(token).err
    THEN [rows |-> refresh_tokens, row |-> NoRow, err |-> TRUE]
    ELSE LET old == GetRefreshToken(token).row
             row == [old EXCEPT !.revoked_at = now, !.updated_at = now]
         IN [rows |-> (refresh_tokens \ {old}) \cup {row},
             row |-> row, err |-> FALSE]

\* INSERT INTO chirps; user_id references users(id)
CreateChirp(id, body, user_id) ==
    IF GetUserByID(user_id).err
    THEN [rows |-> chirps, row |-> NoRow, err |-> TRUE]
    ELSE LET row == [id |-> id, body |-> body, user_id |-> user_id]
         IN [rows |-> chirps \cup {row}, row |-> row, err |-> FALSE]

\* DELETE FROM chirps WHERE id
DeleteChirp(id) == {c \in chirps : c.id # id}


\* ------------------------------------------------------------ responses
Response(op, status, authorization, arg, token, refresh_token, writes) ==
    [op |-> op, status |-> status, authorization |-> authorization,
     arg |-> arg, token |-> token, refresh_token |-> refresh_token,
     writes |-> writes,
     \* storage calls made while serving the request
     queries |-> 0,
     \* the refresh request before this one was the same and was answered 200
     again |-> /\ op = "refresh"
               /\ resp.op = op
               /\ resp.status = StatusOK
               /\ resp.authorization = authorization
               /\ authorization # EmptyString]

\* respondWithError / respondWithJSON with no token in the body
Respond(op, status, authorization, arg) ==
    Response(op, status, authorization, arg, EmptyString, EmptyString, 1)

\* the same response, given after n storage calls
After(n, response) == [response EXCEPT !.queries = n]

Idle == [op |-> "none", status |-> 0, authorization |-> EmptyString,
         arg |-> [none |-> TRUE], token |-> EmptyString,
         refresh_token |-> EmptyString, writes |-> 0, queries |-> 0,
         again |-> FALSE]

NoRequests == [i \in 1..MaxReq |->
                  [kind |-> "free", pc |-> "done", token |-> EmptyString,
                   status |-> 0, startedLate |-> FALSE, readLate |-> FALSE,
                   session |-> EmptyString]]
NoJWT == [pc |-> "off"]
NoCall == [fn |-> "none"]

InitOn(platforms) ==
    /\ users = {}
    /\ chirps = {}
    /\ refresh_tokens = {}
    /\ fileserverHits = 0
    /\ platform \in platforms
    /\ now = 0
    /\ nextUser = 1
    /\ nextChirp = 1
    /\ nextToken = 1
    /\ resp = Idle
    /\ held = {}
    /\ revoked_ok = {}
    /\ inflight = NoRequests
    /\ jwt = NoJWT
    /\ call = NoCall

\* ------------------------------------------------------------- handlers
\* middlewareMetricsInc around the file server
middlewareMetricsInc ==
    /\ fileserverHits < MaxHits
    /\ fileserverHits' = fileserverHits + 1
    /\ resp' = Respond("app", StatusOK, EmptyString, [none |-> TRUE])
    /\ UNCHANGED <<store, config, clock, counters, held, revoked_ok, aside>>

\* variant: the reset is served on every platform
handlerResetAnyPlatform ==
    /\ users' = {}
    /\ chirps' = {}
    /\ refresh_tokens' = {}
    /\ fileserverHits' = 0
    /\ resp' = After(3, Respond("reset", StatusOK, EmptyString,
                                [none |-> TRUE]))
    /\ UNCHANGED <<config, clock, counters, held, revoked_ok, aside>>

handlerReset ==
    /\ IF platform # "dev"
       THEN /\ resp' = Respond("reset", StatusForbidden, EmptyString,
                               [none |-> TRUE])
            /\ UNCHANGED <<store, fileserverHits>>
       ELSE \* DeleteAllUsers (rows referencing users go with them),
            \* DeleteAllChirps, DeleteAllRefreshTokens
            /\ users' = {}
            /\ chirps' = {}
            /\ refresh_tokens' = {}
            /\ fileserverHits' = 0
            /\ resp' = After(3, Respond("reset", StatusOK, EmptyString,
                                        [none |-> TRUE]))
    /\ UNCHANGED <<config, clock, counters, held, revoked_ok, aside>>

handlerCreateUser(email, password, salt, bodyOK) ==
    LET arg == [email |-> email, password |-> password, bodyOK |-> bodyOK]
        hp == HashPassword(password, salt)
        cu == CreateUser(nextUser, email, hp.hash)
    IN
    /\ IF ~bodyOK
       THEN /\ resp' = Respond("create_user", StatusInternalServerError,
                               EmptyString, arg)
            /\ UNCHANGED <<users, nextUser>>
       ELSE \* a failed hash is answered with an error but the handler goes on
            /\ cu.err \/ nextUser <= MaxUsers
            /\ users' = cu.rows
            /\ nextUser' = IF cu.err THEN nextUser ELSE nextUser + 1
            /\ resp' = After(1,
                          IF hp.err
                          THEN Response("create_user",
                                        StatusInternalServerError,
                                        EmptyString, arg, EmptyString,
                                        EmptyString, 2)
                          ELSE IF cu.err
                          THEN Respond("create_user",
                                       StatusInternalServerError,
                                       EmptyString, arg)
                          ELSE Respond("create_user", StatusCreated,
                                       EmptyString, arg))
    /\ UNCHANGED <<chirps, refresh_tokens, fileserverHits, config, clock,
                   nextChirp, nextToken, held, revoked_ok, aside>>

\* variant: the refresh token is given the lifetime of a session token
RefreshTokenExpiryOneHour(t) == t + Hour

\* time.Now().Add(time.Hour * 24 * 60)
RefreshTokenExpiry(t) == t + SixtyDays

handlerLogin(email, password, bodyOK) ==
    LET arg == [email |-> email, password |-> password, bodyOK |-> bodyOK]
        usr == GetUserByEmail(email)
        token == MakeJWT(usr.row.id, Secret, Hour, now)
        refresh_token == MakeRefreshToken(nextToken)
        dbtoken == CreateRefreshToken(refresh_token, usr.row.id,
                                      RefreshTokenExpiry(now))
        fail(status, n) ==
            /\ resp' = After(n, Respond("login", status, EmptyString, arg))
            /\ UNCHANGED <<refresh_tokens, nextToken>>
    IN
    /\ IF ~bodyOK THEN fail(StatusInternalServerError, 0)
       ELSE IF usr.err THEN fail(StatusInternalServerError, 1)
       ELSE IF CheckPasswordHash(usr.row.hashed_password, password)
       THEN fail(StatusUnauthorized, 1)
       ELSE IF token.err THEN fail(StatusInternalServerError, 1)
       ELSE IF dbtoken.err THEN fail(StatusInternalServerError, 2)
       ELSE /\ nextToken <= MaxTokens
            /\ refresh_tokens' = dbtoken.rows
            /\ nextToken' = nextToken + 1
            /\ resp' = After(2, Response("login", StatusOK, EmptyString, arg,
                                         token.token, dbtoken.row.token, 1))
    /\ UNCHANGED <<users, chirps, fileserverHits, config, clock, nextUser,
                   nextChirp, held, revoked_ok, aside>>

\* variant: the check looks at the expiry only
RefreshTokenRejectedExpiryOnly(dbRefreshToken, t) ==
    dbRefreshToken.expires_at < t

\* the check of handlerRefresh on the row it read
RefreshTokenRejected(dbRefreshToken, t) ==
    dbRefreshToken.revoked_at # NULL \/ dbRefreshToken.expires_at < t

\* the response of handlerRefresh to an Authorization header
RefreshResponse(authorization) ==
    LET arg == [none |-> TRUE]
        refresh_token == GetBearerToken(authorization)
        dbRefreshToken == GetRefreshToken(refresh_token.token)
        usr == GetUserFromRefreshToken(refresh_token.token)
        token == MakeJWT(usr.row.id, Secret, Hour, now)
    IN IF refresh_token.err # ""
       THEN Respond("refresh", StatusBadRequest, authorization, arg)
       ELSE IF dbRefreshToken.err
       THEN After(1, Respond("refresh", StatusUnauthorized, authorization,
                             arg))
       ELSE IF RefreshTokenRejected(dbRefreshToken.row, now)
       THEN After(1, Respond("refresh", StatusUnauthorized, authorization,
                             arg))
       ELSE IF usr.err
       THEN After(2, Respond("refresh", StatusUnauthorized, authorization,
                             arg))
       ELSE IF token.err
       THEN After(2, Respond("refresh", StatusUnauthorized, authorization,
                             arg))
       ELSE After(2, Response("refresh", StatusOK, authorization, arg,
                              token.token, EmptyString, 1))

\* variant: a successful refresh uses the refresh token up
handlerRefreshRotating(authorization) ==
    /\ resp' = RefreshResponse(authorization)
    /\ refresh_tokens' =
          IF RefreshResponse(authorization).status = StatusOK
          THEN RevokeToken(GetBearerToken(authorization).token).rows
          ELSE refresh_tokens
    /\ UNCHANGED <<users, chirps, fileserverHits, config, clock, counters,
                   held, revoked_ok, aside>>

handlerRefresh(authorization) ==
    /\ resp' = RefreshResponse(authorization)
    /\ UNCHANGED <<store, fileserverHits, config, clock, counters, held,
                   revoked_ok, aside>>

handlerRevoke(authorization) ==
    LET arg == [none |-> TRUE]
        refresh_token == GetBearerToken(authorization)
        revoked == RevokeToken(refresh_token.token)
    IN
    /\ IF refresh_token.err # ""
       THEN /\ resp' = Respond("revoke", StatusBadRequest, authorization, arg)
            /\ UNCHANGED <<refresh_tokens, revoked_ok>>
       ELSE IF revoked.err
       THEN /\ resp' = After(1, Respond("revoke", StatusBadRequest,
                                        authorization, arg))
            /\ UNCHANGED <<refresh_tokens, revoked_ok>>
       ELSE /\ refresh_tokens' = revoked.rows
            /\ revoked_ok' = revoked_ok \cup {refresh_token.token}
            /\ resp' = After(1, Respond("revoke", StatusNoContent,
                                        authorization, arg))
    /\ UNCHANGED <<users, chirps, fileserverHits, config, clock, counters,
                   held, aside>>


\* variant: the author is the user_id of the request body
ChirpAuthorFromBody(userid, bodyUserID) == bodyUserID

\* database.CreateChirpParams{UserID: userid}: params.UserID is not read
ChirpAuthor(userid, bodyUserID) == userid

handlerCreateChirp(authorization, bodyLen, bodyUserID, bodyOK) ==
    LET arg == [bodyLen |-> bodyLen, user_id |-> bodyUserID,
                bodyOK |-> bodyOK]
        token == GetBearerToken(authorization)
        userid == ValidateJWT(token.token, Secret, now)
        newChirp == CreateChirp(nextChirp, bodyLen,
                                ChirpAuthor(userid.id, bodyUserID))
        fail(status, n) ==
            /\ resp' = After(n, Respond("create_chirp", status,
                                        authorization, arg))
            /\ UNCHANGED <<chirps, nextChirp>>
    IN
    /\ IF ~bodyOK THEN fail(StatusInternalServerError, 0)
       ELSE IF bodyLen > MaxChirpLen THEN fail(StatusBadRequest, 0)
       ELSE IF token.err # "" THEN fail(StatusUnauthorized, 0)
       ELSE IF userid.err # "" THEN fail(StatusUnauthorized, 0)
       ELSE IF newChirp.err THEN fail(StatusBadRequest, 1)
       ELSE /\ nextChirp <= MaxChirps
            /\ chirps' = newChirp.rows
            /\ nextChirp' = nextChirp + 1
            /\ resp' = After(1, Respond("create_chirp", StatusCreated,
                                        authorization, arg))
    /\ UNCHANGED <<users, refresh_tokens, fileserverHits, config, clock,
                   nextUser, nextToken, held, revoked_ok, aside>>

handlerUsers(authorization, email, password, salt, bodyOK) ==
    LET arg == [email |-> email, password |-> password, bodyOK |-> bodyOK]
        token == GetBearerToken(authorization)
        userid == ValidateJWT(token.token, Secret, now)
        hashed_password == HashPassword(password, salt)
        usr == UpdateUser(userid.id, email, hashed_password.hash)
        fail(status, n) ==
            /\ resp' = After(n, Respond("update_user", status,
                                        authorization, arg))
            /\ UNCHANGED users
    IN
    /\ IF token.err # "" THEN fail(StatusUnauthorized, 0)
       ELSE IF userid.err # "" THEN fail(StatusUnauthorized, 0)
       ELSE IF ~bodyOK THEN fail(StatusInternalServerError, 0)
       ELSE IF hashed_password.err THEN fail(StatusInternalServerError, 0)
       ELSE IF usr.err THEN fail(StatusInternalServerError, 1)
       ELSE /\ users' = usr.rows
            /\ resp' = After(1, Respond("update_user", StatusOK,
                                        authorization, arg))
    /\ UNCHANGED <<chirps, refresh_tokens, fileserverHits, config, clock,
                   counters, held, revoked_ok, aside>>

\* variant: any authenticated user passes the ownership check
NotTheAuthorNever(chirp, userid) == FALSE

\* chirp.UserID != userid
NotTheAuthor(chirp, userid) == chirp.user_id # userid

handlerDeleteChirp(authorization, chirpID) ==
    LET arg == [chirpID |-> chirpID]
        token == GetBearerToken(authorization)
        userid == ValidateJWT(token.token, Secret, now)
        chirp_id == UUIDParse(chirpID)
        chirp == GetChirpByID(chirp_id.id)
        fail(status, n) ==
            /\ resp' = After(n, Respond("delete_chirp", status,
                                        authorization, arg))
            /\ UNCHANGED chirps
    IN
    /\ IF token.err # "" THEN fail(StatusUnauthorized, 0)
       ELSE IF userid.err # "" THEN fail(StatusUnauthorized, 0)
       ELSE IF chirp_id.err THEN fail(StatusBadRequest, 0)
       ELSE IF chirp.err THEN fail(StatusNotFound, 1)
       ELSE IF NotTheAuthor(chirp.row, userid.id)
       THEN fail(StatusForbidden, 1)
       ELSE /\ chirps' = DeleteChirp(chirp_id.id)
            /\ resp' = After(2, Respond("delete_chirp", StatusNoContent,
                                        authorization, arg))
    /\ UNCHANGED <<users, refresh_tokens, fileserverHits, config, clock,
                   counters, held, revoked_ok, aside>>

\* variant: any key that is present is accepted
WrongAPIKeyNever(apiKey) == FALSE

\* apiKey != cfg.polkaKey
WrongAPIKey(apiKey) == apiKey # <<Lit(PolkaKey)>>

handlerUpgradeUser(authorization, event, userID, bodyOK) ==
    LET arg == [event |-> event, user_id |-> userID, bodyOK |-> bodyOK]
        apiKey == GetAPIKey(authorization)
        uid == UUIDParse(userID)
        upgraded == UpgradeUser(uid.id)
        fail(status, n) ==
            /\ resp' = After(n, Respond("upgrade_user", status,
                                        authorization, arg))
            /\ UNCHANGED users
    IN
    /\ IF apiKey.err # "" THEN fail(StatusUnauthorized, 0)
       ELSE IF WrongAPIKey(apiKey.token) THEN fail(StatusUnauthorized, 0)
       ELSE IF ~bodyOK THEN fail(StatusInternalServerError, 0)
       ELSE IF event # "user.upgraded" THEN fail(StatusNoContent, 0)
       ELSE IF uid.err THEN fail(StatusInternalServerError, 0)
       ELSE IF upgraded.err THEN fail(StatusNotFound, 1)
       ELSE /\ users' = upgraded.rows
            /\ resp' = After(1, Respond("upgrade_user", StatusNoContent,
                                        authorization, arg))
    /\ UNCHANGED <<chirps, refresh_tokens, fileserverHits, config, clock,
                   counters, held, revoked_ok, aside>>

\* ---------------------------------------------------------- environment
\* time passes between two requests, up to a later instant
Tick(t) ==
    /\ t > now
    /\ now' = t
    /\ resp' = Idle
    /\ UNCHANGED <<store, fileserverHits, config, counters, held,
                   revoked_ok, aside>>

\* the client replaces the session token it keeps by the one it just received
ClientKeep ==
    /\ resp.token # EmptyString
    /\ resp.token \notin held
    /\ held' = {resp.token}
    /\ UNCHANGED <<store, fileserverHits, config, clock, counters, resp,
                   revoked_ok, aside>>

\* ------------------------------------------------------- specifications
Register(emails, passwords, salts) ==
    \/ \E email \in emails, password \in passwords, salt \in salts :
          handlerCreateUser(email, password, salt, TRUE)
    \/ handlerCreateUser("", EmptyString, 0, FALSE)

Login(emails, passwords) ==
    \/ \E email \in emails, password \in passwords :
          handlerLogin(email, password, TRUE)
    \/ handlerLogin("", EmptyString, FALSE)

Refresh(headers) == \E authorization \in headers : handlerRefresh(authorization)

Revoke(headers) == \E authorization \in headers : handlerRevoke(authorization)

Passage(instants) == \E t \in instants : Tick(t)

\* registration, login and the refresh-token lifecycle, on a development
\* deployment (where the reset is allowed)
Init == InitOn({"dev"})

Next ==
    \/ Register(Emails, {Password1}, {1})
    \/ Login(Emails, {Password1, Password2})
    \/ Refresh(RefreshHeaders)
    \/ Revoke(RefreshHeaders)
    \/ handlerReset
    \/ Passage({SixtyDays, SixtyDays + 1})

Spec == Init /\ [][Next]_vars


\* one user's refresh tokens, from login to revocation or expiry
NextRefresh ==
    \/ Register({"a@x.com"}, {Password1}, {1})
    \/ Login({"a@x.com"}, {Password1})
    \/ Refresh(RefreshHeaders)
    \/ Revoke(StoredHeaders)
    \/ handlerReset
    \/ Passage({SixtyDays, SixtyDays + 1})

SpecRefresh == Init /\ [][NextRefresh]_vars

\* two users logging in, with the right password and with a wrong one, on
\* and off a whole second
NextLogin ==
    \/ Register(Emails, {Password1}, {1})
    \/ Login(Emails, {Password1, Password2})
    \/ Passage({1, Hour})

SpecLogin == Init /\ [][NextLogin]_vars

CreateChirpRequest(headers) ==
    \/ \E authorization \in headers, bodyUserID \in UserIDs :
          handlerCreateChirp(authorization, MaxChirpLen, bodyUserID, TRUE)
    \/ \E authorization \in headers :
          handlerCreateChirp(authorization, MaxChirpLen + 1, NilUUID, TRUE)
    \/ \E authorization \in headers :
          handlerCreateChirp(authorization, 0, NilUUID, FALSE)

DeleteChirpRequest(headers) ==
    \E authorization \in headers, chirpID \in ChirpIDStrings :
        handlerDeleteChirp(authorization, chirpID)

UpdateUserRequest(headers, emails, passwords, salts) ==
    \/ \E authorization \in headers, email \in emails,
          password \in passwords, salt \in salts :
          handlerUsers(authorization, email, password, salt, TRUE)
    \/ \E authorization \in headers :
          handlerUsers(authorization, "", EmptyString, 0, FALSE)

\* one user's session tokens, kept by a client, and the endpoints they open
\* as time passes and refresh tokens are revoked
NextSession ==
    \/ Register({"a@x.com"}, {Password1}, {1})
    \/ Login({"a@x.com"}, {Password1})
    \/ ClientKeep
    \/ Refresh(StoredHeaders)
    \/ Revoke(StoredHeaders)
    \/ CreateChirpRequest(HeldHeaders)
    \/ DeleteChirpRequest(HeldHeaders)
    \/ UpdateUserRequest(HeldHeaders, {"a@x.com"}, {Password2}, {1})
    \/ Passage({Hour - 1, Hour})

SpecSession == Init /\ [][NextSession]_vars

\* several users' chirps
NextChirp ==
    \/ Register(Emails, {Password1}, {1})
    \/ Login(Emails, {Password1})
    \/ ClientKeep
    \/ CreateChirpRequest(SessionHeaders)
    \/ DeleteChirpRequest(SessionHeaders)

SpecChirp == Init /\ [][NextChirp]_vars

UpgradeRequest(headers) ==
    \/ \E authorization \in headers, event \in Events,
          userID \in UserIDStrings :
          handlerUpgradeUser(authorization, event, userID, TRUE)
    \/ \E authorization \in headers :
          handlerUpgradeUser(authorization, "", GarbageString, FALSE)

\* the billing provider's webhook and the users it names
NextWebhook ==
    \/ Register(Emails, {Password1}, {1})
    \/ UpgradeRequest(ApiKeyHeaders)

SpecWebhook == Init /\ [][NextWebhook]_vars

\* ---- handlerRefresh and handlerRevoke, one storage call at a time
\* a request being served: where its handler stands and what it has read;
\* startedLate and readLate record whether the token's revocation had
\* completed when the request arrived and when it read the row
Request(kind, pc, token, status, startedLate, readLate, session) ==
    [kind |-> kind, pc |-> pc, token |-> token, status |-> status,
     startedLate |-> startedLate, readLate |-> readLate,
     session |-> session]

Free == Request("free", "done", EmptyString, 0, FALSE, FALSE, EmptyString)

Slots == 1..MaxReq

\* a refresh request arrives: auth.GetBearerToken
refreshStart(i, authorization) ==
    LET refresh_token == GetBearerToken(authorization) IN
    /\ inflight[i].kind = "free"
    /\ inflight' = [inflight EXCEPT ![i] =
          IF refresh_token.err # ""
          THEN Request("refresh", "done", EmptyString, StatusBadRequest,
                       FALSE, FALSE, EmptyString)
          ELSE Request("refresh", "read", refresh_token.token, 0,
                       refresh_token.token \in revoked_ok, FALSE,
                       EmptyString)]
    /\ UNCHANGED <<store, fileserverHits, config, clock, counters, resp,
                   held, revoked_ok, jwt, call>>

\* cfg.queries.GetRefreshToken and the check on the row
refreshRead(i) ==
    LET req == inflight[i]
        dbRefreshToken == GetRefreshToken(req.token)
        late == req.token \in revoked_ok
    IN
    /\ req.kind = "refresh"
    /\ req.pc = "read"
    /\ inflight' = [inflight EXCEPT ![i] =
          IF dbRefreshToken.err
          THEN Request("refresh", "done", req.token, StatusUnauthorized,
                       req.startedLate, late, EmptyString)
          ELSE IF RefreshTokenRejected(dbRefreshToken.row, now)
          THEN Request("refresh", "done", req.token, StatusUnauthorized,
                       req.startedLate, late, EmptyString)
          ELSE Request("refresh", "user", req.token, 0,
                       req.startedLate, late, EmptyString)]
    /\ UNCHANGED <<store, fileserverHits, config, clock, counters, resp,
                   held, revoked_ok, jwt, call>>

\* cfg.queries.GetUserFromRefreshToken, auth.MakeJWT and the response
refreshRespond(i) ==
    LET req == inflight[i]
        usr == GetUserFromRefreshToken(req.token)
        token == MakeJWT(usr.row.id, Secret, Hour, now)
    IN
    /\ req.kind = "refresh"
    /\ req.pc = "user"
    /\ inflight' = [inflight EXCEPT ![i] =
          IF usr.err \/ token.err
          THEN Request("refresh", "done", req.token, StatusUnauthorized,
                       req.startedLate, req.readLate, EmptyString)
          ELSE Request("refresh", "done", req.token, StatusOK,
                       req.startedLate, req.readLate, token.token)]
    /\ UNCHANGED <<store, fileserverHits, config, clock, counters, resp,
                   held, revoked_ok, jwt, call>>

\* a revoke request arrives: auth.GetBearerToken
revokeStart(i, authorization) ==
    LET refresh_token == GetBearerToken(authorization) IN
    /\ inflight[i].kind = "free"
    /\ inflight' = [inflight EXCEPT ![i] =
          IF refresh_token.err # ""
          THEN Request("revoke", "done", EmptyString, StatusBadRequest,
                       FALSE, FALSE, EmptyString)
          ELSE Request("revoke", "write", refresh_token.token, 0,
                       FALSE, FALSE, EmptyString)]
    /\ UNCHANGED <<store, fileserverHits, config, clock, counters, resp,
                   held, revoked_ok, jwt, call>>

\* cfg.queries.RevokeToken and the response
revokeWrite(i) ==
    LET req == inflight[i]
        revoked == RevokeToken(req.token)
    IN
    /\ req.kind = "revoke"
    /\ req.pc = "write"
    /\ IF revoked.err
       THEN /\ inflight' = [inflight EXCEPT ![i] =
                   Request("revoke", "done", req.token, StatusBadRequest,
                           FALSE, FALSE, EmptyString)]
            /\ UNCHANGED <<refresh_tokens, revoked_ok>>
       ELSE /\ refresh_tokens' = revoked.rows
            /\ revoked_ok' = revoked_ok \cup {req.token}
            /\ inflight' = [inflight EXCEPT ![i] =
                   Request("revoke", "done", req.token, StatusNoContent,
                           FALSE, FALSE, EmptyString)]
    /\ UNCHANGED <<users, chirps, fileserverHits, config, clock, counters,
                   resp, held, jwt, call>>

\* the connection of an answered request closes
requestDone(i) ==
    /\ inflight[i].kind # "free"
    /\ inflight[i].pc = "done"
    /\ inflight' = [inflight EXCEPT ![i] = Free]
    /\ UNCHANGED <<store, fileserverHits, config, clock, counters, resp,
                   held, revoked_ok, jwt, call>>

\* the headers of clients that share the first refresh token issued
SharedHeaders == {EmptyString, BearerPrefix \o MakeRefreshToken(1)}

\* refresh and revoke requests for one refresh token, served concurrently
NextRace ==
    \/ Register({"a@x.com"}, {Password1}, {1})
    \/ Login({"a@x.com"}, {Password1})
    \/ \E i \in Slots, authorization \in SharedHeaders :
          refreshStart(i, authorization)
    \/ \E i \in Slots : refreshRead(i)
    \/ \E i \in Slots : refreshRespond(i)
    \/ \E i \in Slots, authorization \in SharedHeaders :
          revokeStart(i, authorization)
    \/ \E i \in Slots : revokeWrite(i)
    \/ \E i \in Slots : requestDone(i)

SpecRace == Init /\ [][NextRace]_vars

\* ---- MakeJWT and ValidateJWT on their own (TestCheckJWT)
JWTSubjects == UserIDs \cup {NilUUID}
JWTSecrets == {Secret, OtherSecret}
\* a second ago, a fraction of a second, a second, an hour
JWTLifetimes == {0 - Second, 1, Second, Hour}
\* instants on and off a whole second
JWTInstants == {0, Hour, Hour + 1}
JWTDelays == {0, 1, Hour}

\* auth.MakeJWT(userID, tokenSecret, expiresIn) at instant t
IssueJWT(userID, tokenSecret, expiresIn, t) ==
    /\ jwt.pc \in {"off", "validated"}
    /\ jwt' = [pc |-> "issued", userID |-> userID,
               tokenSecret |-> tokenSecret, expiresIn |-> expiresIn,
               issued |-> t, altered |-> FALSE,
               token |-> MakeJWT(userID, tokenSecret, expiresIn, t).token,
               key |-> "", at |-> t,
               result |-> [id |-> NilUUID, err |-> ""]]
    /\ UNCHANGED <<store, fileserverHits, config, clock, counters, resp,
                   held, revoked_ok, inflight, call>>

\* the token's subject is rewritten on its way back
AlterJWT ==
    /\ jwt.pc = "issued"
    /\ ~jwt.altered
    /\ jwt' = [jwt EXCEPT !.altered = TRUE, !.token = Tamper(jwt.token)]
    /\ UNCHANGED <<store, fileserverHits, config, clock, counters, resp,
                   held, revoked_ok, inflight, call>>

\* auth.ValidateJWT(tokenString, tokenSecret) after a delay
CheckJWT(tokenSecret, delay) ==
    /\ jwt.pc = "issued"
    /\ jwt' = [jwt EXCEPT
                 !.pc = "validated",
                 !.key = tokenSecret,
                 !.at = jwt.issued + delay,
                 !.result = ValidateJWT(jwt.token, tokenSecret,
                                        jwt.issued + delay)]
    /\ UNCHANGED <<store, fileserverHits, config, clock, counters, resp,
                   held, revoked_ok, inflight, call>>

NextJWT ==
    \/ \E userID \in JWTSubjects, tokenSecret \in JWTSecrets,
          expiresIn \in JWTLifetimes, t \in JWTInstants :
          IssueJWT(userID, tokenSecret, expiresIn, t)
    \/ AlterJWT
    \/ \E tokenSecret \in JWTSecrets, delay \in JWTDelays :
          CheckJWT(tokenSecret, delay)

SpecJWT == Init /\ [][NextJWT]_vars


\* ---- GetBearerToken on its own (TestGetBearerToken)
\* pieces of header text; no run of the others spells "Bearer "
HeaderParts ==
    {Lit("Bearer "), Lit("bearer "), Lit("ApiKey "), Lit("abc123"), Hex(1)}

HeaderTexts ==
    UNION {[1..n -> HeaderParts] : n \in 0..MaxHeaderLen}

Headers ==
    {Header(FALSE, EmptyString)} \cup {Header(TRUE, v) : v \in HeaderTexts}

callGetBearerToken(headers) ==
    /\ call' = [fn |-> "GetBearerToken", headers |-> headers,
                result |-> GetBearerToken(Authorization(headers))]
    /\ UNCHANGED <<store, fileserverHits, config, clock, counters, resp,
                   held, revoked_ok, inflight, jwt>>

NextBearer == \E headers \in Headers : callGetBearerToken(headers)

SpecBearer == Init /\ [][NextBearer]_vars

\* ---- HashPassword and CheckPasswordHash on their own
\* (TestCheckPasswordHash)
PasswordBytes == {"a", "b", NUL}

\* short passwords, and passwords at and around bcrypt's length limit
TestPasswords ==
    UNION {[1..n -> PasswordBytes] : n \in 0..MaxPasswordLen}
    \cup {[i \in 1..n |-> "x"] : n \in (BcryptMaxLen - 1)..(BcryptMaxLen + 1)}

\* hash1, _ := HashPassword(password1)
callHashPassword(password, salt) ==
    /\ call' = [fn |-> "HashPassword", password |-> password,
                hashed |-> TRUE,
                hash |-> HashPassword(password, salt).hash,
                hashErr |-> HashPassword(password, salt).err,
                given |-> EmptyString, err |-> FALSE]
    /\ UNCHANGED <<store, fileserverHits, config, clock, counters, resp,
                   held, revoked_ok, inflight, jwt>>

\* CheckPasswordHash(hash1, password)
callCheckPasswordHash(password) ==
    /\ call.fn = "HashPassword"
    /\ call' = [call EXCEPT !.fn = "CheckPasswordHash",
                            !.given = password,
                            !.err = CheckPasswordHash(call.hash, password)]
    /\ UNCHANGED <<store, fileserverHits, config, clock, counters, resp,
                   held, revoked_ok, inflight, jwt>>

\* CheckPasswordHash("invalidhash", password)
callCheckInvalidHash(hash, password) ==
    /\ call' = [fn |-> "CheckPasswordHash", password |-> EmptyString,
                hashed |-> FALSE, hash |-> hash, hashErr |-> FALSE,
                given |-> password,
                err |-> CheckPasswordHash(hash, password)]
    /\ UNCHANGED <<store, fileserverHits, config, clock, counters, resp,
                   held, revoked_ok, inflight, jwt>>

NextPassword ==
    \/ \E password \in TestPasswords, salt \in Salts :
          callHashPassword(password, salt)
    \/ \E password \in TestPasswords : callCheckPasswordHash(password)
    \/ \E hash \in {InvalidHash, EmptyHash}, password \in TestPasswords :
          callCheckInvalidHash(hash, password)

SpecPassword == Init /\ [][NextPassword]_vars

\* ---- the admin reset, on a development and on a production deployment
\* every refresh token issued so far, stored or not
IssuedTokens == {MakeRefreshToken(n) : n \in 1..(nextToken - 1)}
IssuedHeaders == {BearerPrefix \o c : c \in IssuedTokens}

InitReset == InitOn(Platforms)

NextReset ==
    \/ Register({"a@x.com"}, {Password1}, {1})
    \/ Login({"a@x.com"}, {Password1})
    \/ ClientKeep
    \/ \E authorization \in HeldHeaders :
          handlerCreateChirp(authorization, MaxChirpLen, NilUUID, TRUE)
    \/ middlewareMetricsInc
    \/ Refresh(IssuedHeaders)
    \/ handlerReset

SpecReset == InitReset /\ [][NextReset]_vars

\* ---- two users' session tokens on the endpoints that write for a subject
NextSubject ==
    \/ Register(Emails, {Password1}, {1})
    \/ Login(Emails, {Password1})
    \/ ClientKeep
    \/ CreateChirpRequest(SessionHeaders)
    \/ UpdateUserRequest(SessionHeaders, {"c@x.com"}, {Password2}, {1})

SpecSubject == Init /\ [][NextSubject]_vars

\* ---- registration and profile update with passwords bcrypt takes and
\* one it refuses
NextRegister ==
    \/ Register(Emails, Passwords, Salts)
    \/ Login({"a@x.com"}, {Password1})
    \/ ClientKeep
    \/ UpdateUserRequest(HeldHeaders, {"a@x.com"}, Passwords, Salts)

SpecRegister == Init /\ [][NextRegister]_vars

\* ------------------------------------------------------------ properties
\* the step just taken served a request of this kind
Served(op) == resp'.op = op /\ held' = held

\* the token a request presented in its Authorization header
Presented(response) == GetBearerToken(response.authorization).token
PresentedOK(response) == GetBearerToken(response.authorization).err = ""

SubjectOf(tokenString) == UUIDParse(tokenString[1].claims.sub).id

RowsOf(token) == {r \in refresh_tokens : r.token = token}

\* C1: a refresh request that presents a token gets a session token exactly
\* when a row for the token exists, is not revoked and expires strictly
\* after now; the session token's subject owns the row; every other
\* presented token, one with expires_at = now included, is answered 401.
C1_RefreshIffStrictlyUsable ==
    [][(Served("refresh") /\ PresentedOK(resp')) =>
        LET usable == {r \in RowsOf(Presented(resp')) :
                          r.revoked_at = NULL /\ r.expires_at > now}
        IN /\ (resp'.status = StatusOK) <=> (usable # {})
           /\ (resp'.token # EmptyString) <=> (usable # {})
           /\ usable # {} =>
                \A r \in usable : SubjectOf(resp'.token) = r.user_id
           /\ usable = {} => resp'.status = StatusUnauthorized]_vars

\* C2: no step clears revoked_at, and a refresh request presenting a token
\* whose revoke request succeeded earlier is answered 401, whatever
\* happened in between.
C2_RevokedStaysRejected ==
    [][/\ \A r \in refresh_tokens : r.revoked_at # NULL =>
              \A q \in refresh_tokens' :
                  q.token = r.token => q.revoked_at # NULL
       /\ (Served("refresh") /\ PresentedOK(resp')
             /\ Presented(resp') \in revoked_ok) =>
             (resp'.status = StatusUnauthorized
                /\ resp'.token = EmptyString)]_vars

\* a revoked token, its row still stored and not expired, was presented
\* after a later login and refused
C2_RevokedRefused ==
    /\ resp.op = "refresh"
    /\ resp.status = StatusUnauthorized
    /\ Presented(resp) \in revoked_ok
    /\ \E r \in RowsOf(Presented(resp)) :
          /\ r.expires_at > now
          /\ \E q \in refresh_tokens : q.created_at > r.revoked_at

\* C3: a refresh request changes no stored row; a request that succeeded
\* succeeds again when repeated at once; and a token whose row is neither
\* revoked nor expired mints a session token however often it has before.
C3_RefreshReadsOnly ==
    [][Served("refresh") =>
        /\ refresh_tokens' = refresh_tokens
        /\ users' = users
        /\ chirps' = chirps
        /\ \A h \in RefreshHeaders :
              (resp'.authorization = h /\ resp'.status = StatusOK) =>
                  RefreshResponse(h)'.status = StatusOK
        /\ (PresentedOK(resp')
              /\ \E r \in RowsOf(Presented(resp')) :
                    r.revoked_at = NULL /\ r.expires_at > now) =>
              resp'.status = StatusOK]_vars

\* a refresh token that had just minted a session token minted another
C3_RefreshedAgain ==
    /\ resp.op = "refresh"
    /\ resp.status = StatusOK
    /\ resp.again
    /\ \E r \in RowsOf(Presented(resp)) : r.revoked_at = NULL

\* C6: login answers 200 exactly when a user with the email exists and the
\* password verifies against the stored hash; then exactly one row is added
\* to refresh_tokens, owned by the user, expiring sixty days from now and not
\* revoked, and the session token names the user and lasts one hour; a
\* failed login adds no row and returns no token.
C6_LoginIssues ==
    [][Served("login") =>
        LET matching == {u \in users :
                            /\ resp'.arg.bodyOK
                            /\ u.email = resp'.arg.email
                            /\ ~CheckPasswordHash(u.hashed_password,
                                                  resp'.arg.password)}
            added == refresh_tokens' \ refresh_tokens
        IN /\ (resp'.status = StatusOK) <=> (matching # {})
           /\ resp'.status = StatusOK =>
                /\ refresh_tokens \subseteq refresh_tokens'
                /\ Cardinality(added) = 1
                /\ \A r \in added, u \in matching :
                      /\ r.user_id = u.id
                      /\ r.expires_at = now + SixtyDays
                      /\ r.revoked_at = NULL
                      /\ r.token = resp'.refresh_token
                      /\ RowsOf(r.token) = {}
                      /\ ValidateJWT(resp'.token, Secret, now).err = ""
                      /\ SubjectOf(resp'.token) = u.id
                      /\ resp'.token[1].claims.exp =
                            resp'.token[1].claims.iat + Hour
                      /\ resp'.token[1].claims.iat = NumericDate(now)
           /\ resp'.status # StatusOK =>
                /\ refresh_tokens' = refresh_tokens
                /\ resp'.token = EmptyString
                /\ resp'.refresh_token = EmptyString]_vars

\* a second user logged in while another user's token was stored
C6_LoggedIn ==
    /\ resp.op = "login"
    /\ resp.status = StatusOK
    /\ \E r \in RowsOf(resp.refresh_token) :
          /\ r.user_id = SubjectOf(resp.token)
          /\ \E q \in refresh_tokens : q.user_id # r.user_id

\* C4: a delete request from an authenticated user for a well-formed chirp
\* id is answered 404 when no chirp has that id, whoever asks; 403, the
\* chirp staying stored, when the chirp's author is not the token's subject;
\* and 204, that chirp alone removed, when it is.  No chirp leaves storage
\* except through a delete request made by its author.
C4_DeleteOnlyByAuthor ==
    [][/\ (/\ Served("delete_chirp")
           /\ PresentedOK(resp')
           /\ ValidateJWT(Presented(resp'), Secret, now).err = ""
           /\ ~UUIDParse(resp'.arg.chirpID).err) =>
          LET userid == ValidateJWT(Presented(resp'), Secret, now).id
              named == {c \in chirps : UUIDString(c.id) = resp'.arg.chirpID}
          IN /\ named = {} =>
                  resp'.status = StatusNotFound /\ chirps' = chirps
             /\ (named # {} /\ \E c \in named : c.user_id # userid) =>
                  resp'.status = StatusForbidden /\ chirps' = chirps
             /\ (named # {} /\ \A c \in named : c.user_id = userid) =>
                  resp'.status = StatusNoContent /\ chirps' = chirps \ named
       /\ \A c \in chirps \ chirps' :
             /\ resp'.op = "delete_chirp"
             /\ PresentedOK(resp')
             /\ ValidateJWT(Presented(resp'), Secret, now) =
                   [id |-> c.user_id, err |-> ""]]_vars

\* a user asked to delete another user's chirp, was answered 403, and the
\* chirp is still stored
C4_ForbiddenKept ==
    /\ resp.op = "delete_chirp"
    /\ resp.status = StatusForbidden
    /\ \E c \in chirps :
          /\ UUIDString(c.id) = resp.arg.chirpID
          /\ ValidateJWT(Presented(resp), Secret, now).err = ""
          /\ c.user_id # ValidateJWT(Presented(resp), Secret, now).id

\* C5: a webhook request with the configured key, a readable body, the
\* event "user.upgraded" and the id of a stored user marks that user, and
\* nothing else, as upgraded and is answered 204; with the configured key
\* and another event it is answered 204 and storage is unchanged; with any
\* other Authorization header, readable body or not, it is answered 401
\* before any storage call, and storage is unchanged.
C5_WebhookKeyGuards ==
    [][Served("upgrade_user") =>
        LET arg == resp'.arg
            keyOK == resp'.authorization = ApiKeyPrefix \o <<Lit(PolkaKey)>>
            named == {u \in users : UUIDString(u.id) = arg.user_id}
        IN /\ (keyOK /\ arg.bodyOK /\ arg.event = "user.upgraded"
                 /\ named # {}) =>
                /\ resp'.status = StatusNoContent
                /\ users' = (users \ named) \cup
                       {[u EXCEPT !.is_chirpy_red = TRUE] : u \in named}
                /\ UNCHANGED <<chirps, refresh_tokens>>
           /\ (keyOK /\ arg.bodyOK /\ arg.event # "user.upgraded") =>
                /\ resp'.status = StatusNoContent
                /\ UNCHANGED store
           /\ ~keyOK =>
                /\ resp'.status = StatusUnauthorized
                /\ resp'.queries = 0
                /\ UNCHANGED store]_vars

\* the webhook upgraded one of two stored users
C5_Upgraded ==
    /\ resp.op = "upgrade_user"
    /\ resp.status = StatusNoContent
    /\ resp.arg.event = "user.upgraded"
    /\ \E u \in users :
          /\ UUIDString(u.id) = resp.arg.user_id
          /\ u.is_chirpy_red
    /\ \E u \in users : ~u.is_chirpy_red

\* C7: with refresh and revoke requests for one token served concurrently,
\* a refresh that read the row after the revocation was written is answered
\* 401, and so is one that arrived after the revocation completed; a token
\* whose revocation completed stays revoked whatever the other requests do.
C7_RevokeWinsFromItsWrite ==
    /\ \A i \in Slots :
          (inflight[i].kind = "refresh" /\ inflight[i].pc = "done"
             /\ (inflight[i].readLate \/ inflight[i].startedLate)) =>
             /\ inflight[i].status = StatusUnauthorized
             /\ inflight[i].session = EmptyString
    /\ \A i \in Slots :
          (inflight[i].kind = "refresh" /\ inflight[i].pc = "user") =>
             ~inflight[i].readLate
    /\ \A token \in revoked_ok :
          \A r \in RowsOf(token) : r.revoked_at # NULL

\* a refresh that read the row before the revocation was written was
\* answered with a session token after it
C7_RefreshWonTheRace ==
    \E i \in Slots :
        /\ inflight[i].kind = "refresh"
        /\ inflight[i].pc = "done"
        /\ inflight[i].status = StatusOK
        /\ inflight[i].session # EmptyString
        /\ inflight[i].token \in revoked_ok
        /\ \A r \in RowsOf(inflight[i].token) : r.revoked_at # NULL

GatedOps == {"create_chirp", "delete_chirp", "update_user"}

\* C8: a session token the client received validates, to its subject, at
\* every instant before its exp, and a request presenting it to a gated
\* endpoint before its exp is not answered 401, whether or not the
\* subject's refresh tokens have been revoked in the meantime.
C8_SessionValidUntilExp ==
    [][/\ \A c \in held' :
             now' < c[1].claims.exp =>
                ValidateJWT(c, Secret, now)' =
                   [id |-> SubjectOf(c), err |-> ""]
       /\ (/\ resp'.op \in GatedOps
           /\ held' = held
           /\ PresentedOK(resp')
           /\ Presented(resp') \in held
           /\ now < Presented(resp')[1].claims.exp) =>
             resp'.status # StatusUnauthorized]_vars

\* a gated endpoint accepted a session token, some time after it was
\* issued, when every refresh token of its subject had been revoked
C8_SessionOutlivedRevoke ==
    /\ resp.op \in GatedOps
    /\ resp.status \in {StatusOK, StatusCreated, StatusNoContent}
    /\ Presented(resp) \in held
    /\ now > Presented(resp)[1].claims.iat
    /\ \E r \in refresh_tokens : r.user_id = SubjectOf(Presented(resp))
    /\ \A r \in refresh_tokens :
          r.user_id = SubjectOf(Presented(resp)) => r.revoked_at # NULL

\* the token is validated as issued, under its own secret, at the instant
\* of issuance
ValidatedAtOnce ==
    /\ jwt.pc = "validated"
    /\ ~jwt.altered
    /\ jwt.key = jwt.tokenSecret
    /\ jwt.at = jwt.issued

\* C9 as stated: for every positive lifetime, validating a token under its
\* secret at the instant of issuance returns the subject.
C9_RoundTripAnyPositiveTTL ==
    (ValidatedAtOnce /\ jwt.expiresIn > 0) =>
        jwt.result = [id |-> jwt.userID, err |-> ""]

\* C9, for lifetimes of at least one second: validating a token under its
\* secret at the instant of issuance returns the subject.
C9_RoundTripFromOneSecond ==
    (ValidatedAtOnce /\ jwt.expiresIn >= Second) =>
        jwt.result = [id |-> jwt.userID, err |-> ""]

\* a token with a lifetime of one second, issued off a whole second, was
\* validated at once
C9_RoundTripped ==
    /\ ValidatedAtOnce
    /\ jwt.expiresIn = Second
    /\ jwt.issued % Second # 0
    /\ jwt.userID # NilUUID
    /\ jwt.result = [id |-> jwt.userID, err |-> ""]

\* C10: ValidateJWT returns a user id only for a token whose signature is
\* that of its claims under the validating secret and whose exp lies after
\* the instant of validation; a token issued with a lifetime of minus one
\* second fails as expired under its own secret, a token validated under a
\* secret other than the issuing one fails on its signature, and no failure
\* returns a user id.
C10_ValidateRejects ==
    jwt.pc = "validated" =>
        /\ jwt.result.err = "" =>
              /\ jwt.token[1].sig = HS256(jwt.token[1].claims, jwt.key)
              /\ jwt.at < jwt.token[1].claims.exp
              /\ jwt.result.id = jwt.userID
        /\ (jwt.expiresIn = 0 - Second /\ jwt.key = jwt.tokenSecret
              /\ ~jwt.altered) => jwt.result.err = "expired"
        /\ jwt.key # jwt.tokenSecret => jwt.result.err = "signature"
        /\ jwt.result.err # "" => jwt.result.id = NilUUID

\* a token issued with a lifetime of minus one second was refused as
\* expired under its own secret
C10_ExpiredRefused ==
    /\ jwt.pc = "validated"
    /\ jwt.expiresIn = 0 - Second
    /\ jwt.key = jwt.tokenSecret
    /\ ~jwt.altered
    /\ jwt.userID # NilUUID
    /\ jwt.result = [id |-> NilUUID, err |-> "expired"]

\* C11: on a header of the form "Bearer <token>" GetBearerToken returns
\* exactly the text after the prefix and no error; on a header that is
\* present, not empty and without the prefix it fails with "bearer not
\* found in header"; on an absent or empty header it fails with
\* "authorization not found in header"; a failure returns no token.
C11_BearerExtraction ==
    call.fn = "GetBearerToken" =>
        LET value == call.headers.value
            present == call.headers.present /\ value # EmptyString
            bearer == present /\ value[1] = Lit("Bearer ")
        IN /\ bearer =>
                /\ call.result.err = ""
                /\ BearerPrefix \o call.result.token = value
           /\ (present /\ ~bearer) =>
                call.result = [token |-> EmptyString,
                               err |-> "bearer not found in header"]
           /\ ~present =>
                call.result = [token |-> EmptyString,
                               err |-> "authorization not found in header"]

\* the header "Bearer abc123" yielded "abc123"
C11_TokenExtracted ==
    /\ call.fn = "GetBearerToken"
    /\ call.headers = Header(TRUE, <<Lit("Bearer "), Lit("abc123")>>)
    /\ call.result = [token |-> <<Lit("abc123")>>, err |-> ""]

\* a password bcrypt takes whole: at most BcryptMaxLen bytes, none of them
\* the zero byte
PlainPassword(password) ==
    /\ Len(password) <= BcryptMaxLen
    /\ \A i \in 1..Len(password) : password[i] # NUL

\* C12 as stated: CheckPasswordHash on the hash HashPassword made of P
\* succeeds for P and fails for every other password; on a malformed hash
\* it fails.
C12_HashRoundTripAnyPassword ==
    call.fn = "CheckPasswordHash" =>
        /\ call.hashed => (call.err <=> call.given # call.password)
        /\ ~call.hashed => call.err

\* C12, for passwords of at most 72 bytes without a zero byte: HashPassword
\* succeeds on P, CheckPasswordHash on its hash succeeds for P and fails for
\* every other such password, the empty one included; on a malformed hash
\* CheckPasswordHash fails.
C12_HashRoundTripPlainPasswords ==
    /\ (call.fn = "HashPassword" /\ PlainPassword(call.password)) =>
          ~call.hashErr
    /\ call.fn = "CheckPasswordHash" =>
          /\ (call.hashed /\ PlainPassword(call.password)
                /\ PlainPassword(call.given)) =>
                (call.err <=> call.given # call.password)
          /\ ~call.hashed => call.err

\* the empty password was refused against the hash of a password of
\* exactly 72 bytes
C12_EmptyRefused ==
    /\ call.fn = "CheckPasswordHash"
    /\ call.hashed
    /\ Len(call.password) = BcryptMaxLen
    /\ ~call.hashErr
    /\ call.given = EmptyString
    /\ call.err

BearerOps ==
    {"create_chirp", "delete_chirp", "update_user", "refresh", "revoke"}

\* C13: a request to an operation that extracts a bearer token, sent with
\* no Authorization header or with a header that lacks the "Bearer "
\* prefix, is answered 401 in both cases and changes no stored row.
C13_NoBearerUnauthorized ==
    [][(resp'.op \in BearerOps /\ held' = held /\ ~PresentedOK(resp')) =>
          /\ resp'.status = StatusUnauthorized
          /\ UNCHANGED store]_vars

\* C14: a login with a readable body that fails, because no user has the
\* email or because the password does not verify, is answered with the one
\* status 401 in both cases, returns no token and stores no refresh token.
C14_LoginFailuresAlike ==
    [][(Served("login") /\ resp'.arg.bodyOK
          /\ \A u \in users :
                u.email = resp'.arg.email =>
                   CheckPasswordHash(u.hashed_password,
                                     resp'.arg.password)) =>
          /\ resp'.status = StatusUnauthorized
          /\ resp'.token = EmptyString
          /\ resp'.refresh_token = EmptyString
          /\ refresh_tokens' = refresh_tokens]_vars

\* C15: the platform never changes; a reset on a platform other than "dev"
\* is answered 403 and leaves users, chirps, refresh tokens and the hit
\* counter as they were; a reset on "dev" leaves no user, no chirp, no
\* refresh token and a hit counter of 0; and a refresh request presenting a
\* token that was issued and is no longer stored is answered 401.
C15_ResetOnlyInDev ==
    [][/\ platform' = platform
       /\ Served("reset") =>
             IF platform # "dev"
             THEN /\ resp'.status = StatusForbidden
                  /\ UNCHANGED <<store, fileserverHits>>
             ELSE /\ users' = {}
                  /\ chirps' = {}
                  /\ refresh_tokens' = {}
                  /\ fileserverHits' = 0
       /\ (Served("refresh") /\ PresentedOK(resp')
             /\ Presented(resp') \in IssuedTokens
             /\ RowsOf(Presented(resp')) = {}) =>
             (resp'.status = StatusUnauthorized
                /\ resp'.token = EmptyString)]_vars

\* after a reset on "dev" that followed a login, the refresh token of that
\* login was presented and refused
C15_RefusedAfterReset ==
    /\ platform = "dev"
    /\ resp.op = "refresh"
    /\ resp.status = StatusUnauthorized
    /\ Presented(resp) \in IssuedTokens
    /\ users = {}
    /\ refresh_tokens = {}

\* the request just served carried a session token valid for this user
ValidFor(userid) ==
    /\ PresentedOK(resp')
    /\ ValidateJWT(Presented(resp'), Secret, now) = [id |-> userid, err |-> ""]

\* C16: every chirp that enters storage is created by a create-chirp
\* request carrying a valid session token and has that token's subject as
\* author, whatever user_id the body names; every user row that changes
\* outside registration is changed by an update request carrying a valid
\* session token and is the row of that token's subject; and a create-chirp
\* request answered 201 has stored such a chirp.
C16_WritesForSubjectOnly ==
    [][/\ \A c \in chirps' \ chirps :
             resp'.op = "create_chirp" /\ ValidFor(c.user_id)
       /\ \A u \in (users' \ users) \cup (users \ users') :
             \/ resp'.op = "create_user" /\ u \in users'
             \/ resp'.op = "update_user" /\ ValidFor(u.id)
       /\ (Served("create_chirp") /\ resp'.status = StatusCreated) =>
             \E c \in chirps' \ chirps : ValidFor(c.user_id)]_vars

\* a chirp was created for the token's subject by a request whose body
\* named the other user
C16_BodyUserIgnored ==
    /\ resp.op = "create_chirp"
    /\ resp.status = StatusCreated
    /\ resp.arg.user_id # SubjectOf(Presented(resp))
    /\ \E c \in chirps : c.user_id = SubjectOf(Presented(resp))
    /\ \A c \in chirps : c.user_id # resp.arg.user_id

\* C17: every stored user row holds a hash made by HashPassword, and a
\* registration or profile update whose password HashPassword refuses
\* writes one error response and leaves the users table as it was.
C17_OnlyHashesStored ==
    [][/\ \A u \in users' :
             /\ u.hashed_password.fmt = "bcrypt"
             /\ \E password \in Passwords, salt \in Salts :
                   /\ ~HashPassword(password, salt).err
                   /\ u.hashed_password = HashPassword(password, salt).hash
       /\ (resp'.op \in {"create_user", "update_user"} /\ held' = held
             /\ resp'.arg.bodyOK
             /\ \A salt \in Salts :
                   HashPassword(resp'.arg.password, salt).err) =>
             /\ users' = users
             /\ resp'.writes = 1
             /\ resp'.status = StatusInternalServerError]_vars

====
